---------------------------- MODULE Spec2Model ----------------------------
(* A model of modules/aws/s3.go: the S3 test helpers of terratest.         *)
(* Each helper is modelled with the SDK requests it issues, the E helpers  *)
(* it calls and what it returns; the SDK client and the S3 service are the *)
(* environment, whose responses are drawn from small sets.                 *)
EXTENDS Integers, Sequences, FiniteSets

(* ------------------------------------------------------------------ *)
(* Bounds of the model                                                  *)
(* ------------------------------------------------------------------ *)
MaxKey == 2          \* object keys are 1..MaxKey, in S3's listing order
MaxVer == 2          \* version ids of one key are 1..MaxVer
MaxObjects == 3      \* versions and delete markers a bucket starts with
PageSize == 2        \* entries S3 returns in one ListObjectVersions page
MaxBuckets == 2      \* buckets one ListBuckets response lists

Keys == 1..MaxKey
VersionIds == 1..MaxVer
Regions == {"us-east-1", "eu-west-1"}
BucketNames == {"b1", "b2", "b3"}
TagKeys == {"k1", "k2"}
TagValues == {"v1", "v2"}

(* ------------------------------------------------------------------ *)
(* Values shared by the helpers                                         *)
(* ------------------------------------------------------------------ *)
\* Go's nil error.
Nil == [type |-> "nil"]
\* A nil *string of an SDK output.
NilPtr == "<nil>"
\* The result of a helper that returns nothing besides its error.
NoValue == "<none>"
\* The empty KeyMarker of a first ListObjectVersions request: it sorts
\* before every key.
NoMarker == 0

\* A nil pointer to an SDK output structure.
NilOutput == [nil |-> TRUE]
\* What stands for the state of a goroutine that panicked: it returns nothing.
Panic == [type |-> "panic"]

\* An error an SDK request returns; msg holds the words of err.Error().
SdkErr(words) == [type |-> "sdk", msg |-> words]
\* The error of NewAuthenticatedSession.
SessionErr == [type |-> "session"]

\* aws.ToString: the string a *string points to, "" for nil.
ToString(p) == IF p = NilPtr THEN "" ELSE p

\* strings.Contains(err.Error(), word) on the words of an SDK error.
Contains(err, word) == \E i \in 1..Len(err.msg) : err.msg[i] = word

Min(a, b) == IF a < b THEN a ELSE b

VARIABLES
    objects,          \* versions and delete markers of the bucket being emptied
    pc,               \* "idle", "list", "delete" or "done"
    top,              \* the helper the test called: [fn, args]
    params,           \* EmptyS3BucketE: the ListObjectVersionsInput
    bucketObjects,    \* EmptyS3BucketE: the last ListObjectVersionsOutput
    reqs,             \* SDK requests issued since the helper was called
    calls,            \* E helpers called since then, with what each returned
    ret,              \* what the helper returned
    failed            \* whether require.NoError failed the test

vars == <<objects, pc, top, params, bucketObjects, reqs, calls, ret, failed>>

(* ------------------------------------------------------------------ *)
(* The S3 service: object versions of one bucket                        *)
(* ------------------------------------------------------------------ *)
Slots == Keys \X VersionIds

\* Every content a bucket can start with: at most MaxObjects entries, each
\* (key, version id) a version or a delete marker.
AllContents ==
    UNION { { { [Key |-> s[1], VersionId |-> s[2], IsDeleteMarker |-> f[s]] : s \in S }
              : f \in [S -> BOOLEAN] }
            : S \in { T \in SUBSET Slots : Cardinality(T) <= MaxObjects } }

\* S3 lists by key, and the versions of one key from the newest.
Before(a, b) ==
    \/ a.Key < b.Key
    \/ a.Key = b.Key /\ a.VersionId > b.VersionId

RECURSIVE Sorted(_)
Sorted(S) ==
    IF S = {} THEN <<>>
    ELSE LET first == CHOOSE a \in S : \A b \in S \ {a} : Before(a, b)
         IN  <<first>> \o Sorted(S \ {first})

IsVersion(e) == ~e.IsDeleteMarker
IsMarker(e) == e.IsDeleteMarker

\* The response of S3 to ListObjectVersions with a KeyMarker and no
\* VersionIdMarker: the listing starts with the first key after KeyMarker.
\* NextKeyMarker is the last key of a truncated page (absent, written
\* NoMarker, otherwise).
ListObjectVersionsOutput(content, keyMarker) ==
    LET after == Sorted({ e \in content : e.Key > keyMarker })
        n == Min(PageSize, Len(after))
        page == SubSeq(after, 1, n)
        more == Len(after) > n
    IN  [ Versions |-> SelectSeq(page, IsVersion),
          DeleteMarkers |-> SelectSeq(page, IsMarker),
          IsTruncated |-> more,
          NextKeyMarker |-> IF more THEN page[n].Key ELSE NoMarker ]

\* The effect of a successful DeleteObjects: the named versions are gone.
DeleteObjectsEffect(content, ids) ==
    { e \in content :
        ~\E i \in 1..Len(ids) : ids[i].Key = e.Key /\ ids[i].VersionId = e.VersionId }

(* ------------------------------------------------------------------ *)
(* Calls, requests and returns                                          *)
(* ------------------------------------------------------------------ *)
\* The record of one call of an E helper and of what it returned.
Call(fn, args, val, err) == [fn |-> fn, args |-> args, val |-> val, err |-> err]

\* What an E helper did: its return values, the SDK requests it issued and
\* the E helpers called (itself first, then those it called).
Result(fn, args, val, err, requests, inner) ==
    [val |-> val, err |-> err, reqs |-> requests,
     calls |-> <<Call(fn, args, val, err)>> \o inner]

\* One SDK request with the response res = [out, err] the client gave.
Req(op, in, res) == [op |-> op, in |-> in, out |-> res.out, err |-> res.err]

\* The errors an SDK request can fail with, besides those that
\* FindS3BucketWithTagE looks for.
RequestErrs == {SdkErr(<<"AccessDenied">>)}

\* A failed request: the client returns a nil output and the error.
Failures == { [out |-> NilOutput, err |-> e] : e \in RequestErrs }
Success(out) == [out |-> out, err |-> Nil]

\* The responses to a request whose output the helpers do not read.
PlainResponses == {Success([ok |-> TRUE])} \cup Failures

\* What require.NoError(t, err) does: it fails the test when err is not nil.
RequireNoError(err) == err # Nil

\* A helper without the E suffix, given the result r of its twin:
\* require.NoError, then the twin's value is returned. After a failure FailNow
\* ends the test goroutine (goexit) or, with another TestingT, comes back and
\* the helper returns. A panic of the twin unwinds through the helper.
Wrap(r, goexit) ==
    IF r.err = Panic
    THEN [val |-> NoValue, returned |-> FALSE, failed |-> FALSE,
          reqs |-> r.reqs, calls |-> r.calls]
    ELSE LET back == ~(RequireNoError(r.err) /\ goexit)
         IN  [val |-> IF back THEN r.val ELSE NoValue, returned |-> back,
              failed |-> RequireNoError(r.err),
              reqs |-> r.reqs, calls |-> r.calls]

\* NewS3ClientE: the client, or the error of NewAuthenticatedSession.
NewS3ClientE(sess, region) ==
    IF sess # Nil
    THEN Result("NewS3ClientE", <<region>>, NilPtr, sess, <<>>, <<>>)
    ELSE Result("NewS3ClientE", <<region>>, "s3.Client", Nil, <<>>, <<>>)

\* NewS3Client
NewS3Client(sess, goexit, region) == Wrap(NewS3ClientE(sess, region), goexit)

\* NewS3UploaderE: the uploader, or the error of NewAuthenticatedSession.
NewS3UploaderE(sess, region) ==
    IF sess # Nil
    THEN Result("NewS3UploaderE", <<region>>, NilPtr, sess, <<>>, <<>>)
    ELSE Result("NewS3UploaderE", <<region>>, "manager.Uploader", Nil, <<>>, <<>>)

\* NewS3Uploader
NewS3Uploader(sess, goexit, region) == Wrap(NewS3UploaderE(sess, region), goexit)

NoParams == [Bucket |-> NilPtr, KeyMarker |-> NoMarker]
NoPage == [Versions |-> <<>>, DeleteMarkers |-> <<>>, IsTruncated |-> FALSE,
           NextKeyMarker |-> NoMarker]

\* Every helper is a function without state of its own: a behaviour is one
\* call of one helper by the test, from Init to pc = "done".
Init ==
    /\ objects = {}
    /\ pc = "idle"
    /\ top = [fn |-> "none", args |-> <<>>]
    /\ params = NoParams
    /\ bucketObjects = NoPage
    /\ reqs = <<>>
    /\ calls = <<>>
    /\ ret = [val |-> NoValue, err |-> Nil]
    /\ failed = FALSE

Sessions == {Nil, SessionErr}

\* The test called the E helper fn, which ran to its return with result r.
Finish(fn, args, r) ==
    /\ pc' = "done"
    /\ top' = [fn |-> fn, args |-> args]
    /\ reqs' = r.reqs
    /\ calls' = r.calls
    /\ ret' = [val |-> r.val, err |-> r.err]
    /\ failed' = FALSE
    /\ UNCHANGED <<objects, params, bucketObjects>>

\* The test called the helper fn without the E suffix, with outcome w.
FinishW(fn, args, w) ==
    /\ pc' = "done"
    /\ top' = [fn |-> fn, args |-> args]
    /\ reqs' = w.reqs
    /\ calls' = w.calls
    /\ ret' = [val |-> w.val, returned |-> w.returned]
    /\ failed' = w.failed
    /\ UNCHANGED <<objects, params, bucketObjects>>

(* ------------------------------------------------------------------ *)
(* EmptyS3BucketE and EmptyS3Bucket                                     *)
(* ------------------------------------------------------------------ *)
\* The bucket name the running EmptyS3BucketE was given.
EName == calls[1].args[2]

\* The content S3 holds for a bucket: only the bucket the test names is
\* populated.
ContentOf(b) == IF b = top.args[2] THEN objects ELSE {}

\* A variant of ObjectsToDelete that leaves the delete markers of the page out.
ObjectsToDelete_VersionsOnly(page) ==
    [i \in 1..Len(page.Versions) |->
        [Key |-> page.Versions[i].Key, VersionId |-> page.Versions[i].VersionId]]

\* objectsToDelete: the versions of the page, then its delete markers.
Identifier(e) == [Key |-> e.Key, VersionId |-> e.VersionId]
ObjectsToDelete(page) ==
    [i \in 1..Len(page.Versions) |-> Identifier(page.Versions[i])]
    \o [i \in 1..Len(page.DeleteMarkers) |-> Identifier(page.DeleteMarkers[i])]

\* The arguments EmptyS3Bucket passes to EmptyS3BucketE.
EmptyS3BucketTwinArgs(region, name) == <<region, name>>

\* EmptyS3BucketE returns err; through EmptyS3Bucket, require.NoError follows.
EmptyReturn(fn, ecalls, err) ==
    LET r == [val |-> NoValue, err |-> err, reqs |-> reqs',
              calls |-> <<Call("EmptyS3BucketE", ecalls[1].args, NoValue, err)>>
                        \o Tail(ecalls)]
    IN  /\ pc' = "done"
        /\ calls' = r.calls
        /\ IF fn = "EmptyS3Bucket"
           THEN \E goexit \in BOOLEAN :
                  LET w == Wrap(r, goexit)
                  IN  /\ failed' = w.failed
                      /\ ret' = [val |-> w.val, returned |-> w.returned]
           ELSE /\ failed' = FALSE
                /\ ret' = [val |-> NoValue, err |-> err]
        /\ params' = NoParams
        /\ bucketObjects' = NoPage

\* EmptyS3BucketE up to its loop: the client, then the first request's input.
EmptyEnter(fn, region, name, sess) ==
    LET c == NewS3ClientE(sess, region)
        running == <<Call("EmptyS3BucketE", <<region, name>>, NoValue,
                          [type |-> "running"])>> \o c.calls
    IN  /\ reqs' = <<>>
        /\ IF c.err # Nil
           THEN EmptyReturn(fn, running, c.err)
           ELSE /\ pc' = "list"
                /\ calls' = running
                /\ failed' = FALSE
                /\ ret' = [val |-> NoValue, err |-> Nil]
                /\ params' = [Bucket |-> name, KeyMarker |-> NoMarker]
                /\ bucketObjects' = NoPage

\* The test calls EmptyS3BucketE on a bucket of any content.
InvokeEmptyS3BucketE ==
    /\ pc = "idle"
    /\ \E region \in Regions, name \in BucketNames, sess \in Sessions,
          content \in AllContents :
        /\ objects' = content
        /\ top' = [fn |-> "EmptyS3BucketE", args |-> <<region, name>>]
        /\ EmptyEnter("EmptyS3BucketE", region, name, sess)

\* The test calls EmptyS3Bucket, which calls EmptyS3BucketE.
InvokeEmptyS3Bucket ==
    /\ pc = "idle"
    /\ \E region \in Regions, name \in BucketNames, sess \in Sessions,
          content \in AllContents :
        /\ objects' = content
        /\ top' = [fn |-> "EmptyS3Bucket", args |-> <<region, name>>]
        /\ LET a == EmptyS3BucketTwinArgs(region, name)
           IN  EmptyEnter("EmptyS3Bucket", a[1], a[2], sess)

\* One ListObjectVersions request of the loop and the check that follows it.
EmptyList ==
    /\ pc = "list"
    /\ \E sdkErr \in {Nil} \cup RequestErrs :
        LET out == IF sdkErr = Nil
                   THEN ListObjectVersionsOutput(ContentOf(params.Bucket), params.KeyMarker)
                   ELSE NoPage
            req == Req("ListObjectVersions",
                       [Bucket |-> params.Bucket, KeyMarker |-> params.KeyMarker],
                       [out |-> out, err |-> sdkErr])
        IN  /\ reqs' = Append(reqs, req)
            /\ IF sdkErr # Nil
               THEN EmptyReturn(top.fn, calls, sdkErr)
               ELSE IF Len(out.Versions) = 0
               THEN EmptyReturn(top.fn, calls, Nil)
               ELSE /\ pc' = "delete"
                    /\ bucketObjects' = out
                    /\ UNCHANGED <<params, calls, ret, failed>>
    /\ UNCHANGED <<objects, top>>

\* The DeleteObjects request of the loop and the truncation test after it.
\* The err returned after the loop is the one of NewS3ClientE, which is nil.
EmptyDelete ==
    /\ pc = "delete"
    /\ \E sdkErr \in {Nil} \cup RequestErrs :
        LET ids == ObjectsToDelete(bucketObjects)
            req == Req("DeleteObjects", [Bucket |-> EName, Objects |-> ids],
                       [out |-> NoPage, err |-> sdkErr])
        IN  /\ reqs' = Append(reqs, req)
            /\ IF sdkErr # Nil
               THEN /\ EmptyReturn(top.fn, calls, sdkErr)
                    /\ UNCHANGED objects
               ELSE /\ objects' = IF EName = top.args[2]
                                  THEN DeleteObjectsEffect(objects, ids)
                                  ELSE objects
                    /\ IF bucketObjects.IsTruncated
                       THEN /\ params' = [params EXCEPT !.KeyMarker = bucketObjects.NextKeyMarker]
                            /\ pc' = "list"
                            /\ UNCHANGED <<bucketObjects, calls, ret, failed>>
                       ELSE EmptyReturn(top.fn, calls, Nil)
    /\ UNCHANGED top

NextEmpty ==
    \/ InvokeEmptyS3BucketE
    \/ InvokeEmptyS3Bucket
    \/ EmptyList
    \/ EmptyDelete

(* ------------------------------------------------------------------ *)
(* FindS3BucketWithTagE, GetS3BucketTagsE                               *)
(* ------------------------------------------------------------------ *)
Tag(k, v) == [Key |-> k, Value |-> v]

\* The tag sets a GetBucketTagging response carries in the model.
TagSets ==
    {<<>>}
    \cup { <<Tag(k, v)>> : k \in TagKeys, v \in TagValues }
    \cup { <<Tag("k1", "v2"), Tag("k2", "v1")>>, <<Tag("k1", "v1"), Tag("k1", "v2")>> }

\* The errors of GetBucketTagging: the four FindS3BucketWithTagE looks for
\* in the message, and another one.
TaggingErrs ==
    { SdkErr(<<w>>) : w \in {"NoSuchBucket", "AuthorizationHeaderMalformed",
                             "BucketRegionError", "NoSuchTagSet", "AccessDenied"} }

TaggingResponses ==
    { Success([TagSet |-> ts]) : ts \in TagSets }
    \cup { [out |-> NilOutput, err |-> e] : e \in TaggingErrs }

\* The bucket lists of a ListBuckets response: up to MaxBuckets names, each once.
Listings ==
    UNION { { l \in [1..n -> BucketNames] : \A i, j \in 1..n : l[i] = l[j] => i = j }
            : n \in 0..MaxBuckets }

ListBucketsResponses == { Success([Buckets |-> l]) : l \in Listings } \cup Failures

Names(l) == { l[i] : i \in 1..Len(l) }

\* A variant of HasTag that compares the keys only.
HasTag_KeyOnly(tagSet, key, value) ==
    \E i \in 1..Len(tagSet) : tagSet[i].Key = key

\* for _, tag := range TagSet: whether a tag has this key and this value.
HasTag(tagSet, key, value) ==
    \E i \in 1..Len(tagSet) : tagSet[i].Key = key /\ tagSet[i].Value = value

\* The loop of FindS3BucketWithTagE over resp.Buckets, from the i-th bucket.
\* A tolerated error leaves tagResponse nil, and ranging over its TagSet
\* panics.
RECURSIVE FindLoop(_, _, _, _, _)
FindLoop(buckets, tagResp, key, value, i) ==
    IF i > Len(buckets)
    THEN [val |-> "", err |-> Nil, reqs |-> <<>>]
    ELSE LET bucket == buckets[i]
             r == tagResp[bucket]
             req == Req("GetBucketTagging", [Bucket |-> bucket], r)
             rest == FindLoop(buckets, tagResp, key, value, i + 1)
             next == [rest EXCEPT !.reqs = <<req>> \o @]
         IN  IF r.err # Nil /\ Contains(r.err, "NoSuchBucket")
             THEN next
             ELSE IF /\ r.err # Nil
                     /\ ~Contains(r.err, "AuthorizationHeaderMalformed")
                     /\ ~Contains(r.err, "BucketRegionError")
                     /\ ~Contains(r.err, "NoSuchTagSet")
             THEN [val |-> "", err |-> r.err, reqs |-> <<req>>]
             ELSE IF r.out = NilOutput
             THEN [val |-> NoValue, err |-> Panic, reqs |-> <<req>>]
             ELSE IF HasTag(r.out.TagSet, key, value)
             THEN [val |-> bucket, err |-> Nil, reqs |-> <<req>>]
             ELSE next

FindS3BucketWithTagE(sess, resp, tagResp, awsRegion, key, value) ==
    LET fn == "FindS3BucketWithTagE"
        args == <<awsRegion, key, value>>
        c == NewS3ClientE(sess, awsRegion)
        list == Req("ListBuckets", [none |-> TRUE], resp)
    IN  IF c.err # Nil
        THEN Result(fn, args, "", c.err, <<>>, c.calls)
        ELSE IF resp.err # Nil
        THEN Result(fn, args, "", resp.err, <<list>>, c.calls)
        ELSE LET l == FindLoop(resp.out.Buckets, tagResp, key, value, 1)
             IN  Result(fn, args, l.val, l.err, <<list>> \o l.reqs, c.calls)

\* A variant of FindS3BucketWithTag that passes value and key in each other's place.
FindS3BucketWithTag_Swapped(sess, resp, tagResp, goexit, awsRegion, key, value) ==
    Wrap(FindS3BucketWithTagE(sess, resp, tagResp, awsRegion, value, key), goexit)

FindS3BucketWithTag(sess, resp, tagResp, goexit, awsRegion, key, value) ==
    Wrap(FindS3BucketWithTagE(sess, resp, tagResp, awsRegion, key, value), goexit)

\* The tag responses of the buckets a ListBuckets response lists.
TagResponsesOf(resp) ==
    IF resp.err # Nil THEN {<<>>}
    ELSE [Names(resp.out.Buckets) -> TaggingResponses]

InvokeFindS3BucketWithTagE ==
    /\ pc = "idle"
    /\ \E sess \in Sessions, resp \in ListBucketsResponses, awsRegion \in Regions,
          key \in TagKeys, value \in TagValues :
         \E tagResp \in TagResponsesOf(resp) :
           Finish("FindS3BucketWithTagE", <<awsRegion, key, value>>,
                  FindS3BucketWithTagE(sess, resp, tagResp, awsRegion, key, value))

InvokeFindS3BucketWithTag ==
    /\ pc = "idle"
    /\ \E sess \in Sessions, resp \in ListBucketsResponses, awsRegion \in Regions,
          key \in TagKeys, value \in TagValues, goexit \in BOOLEAN :
         \E tagResp \in TagResponsesOf(resp) :
           FinishW("FindS3BucketWithTag", <<awsRegion, key, value>>,
                   FindS3BucketWithTag(sess, resp, tagResp, goexit, awsRegion, key, value))

\* tags[key] = value for each tag of the set in turn: the last one of a key stays.
TagsMap(tagSet) ==
    [k \in { tagSet[i].Key : i \in 1..Len(tagSet) } |->
        LET last == CHOOSE i \in 1..Len(tagSet) :
                        /\ tagSet[i].Key = k
                        /\ \A j \in (i + 1)..Len(tagSet) : tagSet[j].Key # k
        IN  ToString(tagSet[last].Value)]

GetS3BucketTagsE(sess, out, awsRegion, bucket) ==
    LET fn == "GetS3BucketTagsE"
        args == <<awsRegion, bucket>>
        c == NewS3ClientE(sess, awsRegion)
        req == Req("GetBucketTagging", [Bucket |-> bucket], out)
    IN  IF c.err # Nil
        THEN Result(fn, args, NilPtr, c.err, <<>>, c.calls)
        ELSE IF out.err # Nil
        THEN Result(fn, args, NilPtr, out.err, <<req>>, c.calls)
        ELSE Result(fn, args, TagsMap(out.out.TagSet), Nil, <<req>>, c.calls)

GetS3BucketTags(sess, out, goexit, awsRegion, bucket) ==
    Wrap(GetS3BucketTagsE(sess, out, awsRegion, bucket), goexit)

InvokeGetS3BucketTagsE ==
    /\ pc = "idle"
    /\ \E sess \in Sessions, out \in TaggingResponses, awsRegion \in Regions,
          bucket \in BucketNames :
           Finish("GetS3BucketTagsE", <<awsRegion, bucket>>,
                  GetS3BucketTagsE(sess, out, awsRegion, bucket))

InvokeGetS3BucketTags ==
    /\ pc = "idle"
    /\ \E sess \in Sessions, out \in TaggingResponses, awsRegion \in Regions,
          bucket \in BucketNames, goexit \in BOOLEAN :
           FinishW("GetS3BucketTags", <<awsRegion, bucket>>,
                   GetS3BucketTags(sess, out, goexit, awsRegion, bucket))

(* ------------------------------------------------------------------ *)
(* Objects: GetS3ObjectContentsE, PutS3ObjectContentsE                  *)
(* ------------------------------------------------------------------ *)
ObjectKeys == {"file.txt"}
Bodies == {"", "hello"}
ReadErr == [type |-> "read"]

\* GetObject: the body with its content and the error reading it gives.
ObjectResponses ==
    { Success([Body |-> [content |-> b, readErr |-> e]]) :
        b \in Bodies, e \in {Nil, ReadErr} }
    \cup Failures

GetS3ObjectContentsE(sess, res, awsRegion, bucket, key) ==
    LET fn == "GetS3ObjectContentsE"
        args == <<awsRegion, bucket, key>>
        c == NewS3ClientE(sess, awsRegion)
        req == Req("GetObject", [Bucket |-> bucket, Key |-> key], res)
    IN  IF c.err # Nil
        THEN Result(fn, args, "", c.err, <<>>, c.calls)
        ELSE IF res.err # Nil
        THEN Result(fn, args, "", res.err, <<req>>, c.calls)
        ELSE IF res.out.Body.readErr # Nil
        THEN Result(fn, args, "", res.out.Body.readErr, <<req>>, c.calls)
        ELSE Result(fn, args, res.out.Body.content, Nil, <<req>>, c.calls)

GetS3ObjectContents(sess, res, goexit, awsRegion, bucket, key) ==
    Wrap(GetS3ObjectContentsE(sess, res, awsRegion, bucket, key), goexit)

InvokeGetS3ObjectContentsE ==
    /\ pc = "idle"
    /\ \E sess \in Sessions, res \in ObjectResponses, awsRegion \in Regions,
          bucket \in BucketNames, key \in ObjectKeys :
        Finish("GetS3ObjectContentsE", <<awsRegion, bucket, key>>,
               GetS3ObjectContentsE(sess, res, awsRegion, bucket, key))

InvokeGetS3ObjectContents ==
    /\ pc = "idle"
    /\ \E sess \in Sessions, res \in ObjectResponses, awsRegion \in Regions,
          bucket \in BucketNames, key \in ObjectKeys, goexit \in BOOLEAN :
        FinishW("GetS3ObjectContents", <<awsRegion, bucket, key>>,
                GetS3ObjectContents(sess, res, goexit, awsRegion, bucket, key))

\* fmt.Errorf("failed to instantiate s3 client: %w", err)
ClientErr(err) == [type |-> "failed to instantiate s3 client", cause |-> err]

PutS3ObjectContentsE(sess, res, awsRegion, bucket, key, body) ==
    LET fn == "PutS3ObjectContentsE"
        args == <<awsRegion, bucket, key, body>>
        c == NewS3ClientE(sess, awsRegion)
        req == Req("PutObject", [Bucket |-> bucket, Key |-> key, Body |-> body], res)
    IN  IF c.err # Nil
        THEN Result(fn, args, NoValue, ClientErr(c.err), <<>>, c.calls)
        ELSE Result(fn, args, NoValue, res.err, <<req>>, c.calls)

PutS3ObjectContents(sess, res, goexit, awsRegion, bucket, key, body) ==
    Wrap(PutS3ObjectContentsE(sess, res, awsRegion, bucket, key, body), goexit)

InvokePutS3ObjectContentsE ==
    /\ pc = "idle"
    /\ \E sess \in Sessions, res \in PlainResponses, awsRegion \in Regions,
          bucket \in BucketNames, key \in ObjectKeys, body \in Bodies :
        Finish("PutS3ObjectContentsE", <<awsRegion, bucket, key, body>>,
               PutS3ObjectContentsE(sess, res, awsRegion, bucket, key, body))

InvokePutS3ObjectContents ==
    /\ pc = "idle"
    /\ \E sess \in Sessions, res \in PlainResponses, awsRegion \in Regions,
          bucket \in BucketNames, key \in ObjectKeys, body \in Bodies,
          goexit \in BOOLEAN :
        FinishW("PutS3ObjectContents", <<awsRegion, bucket, key, body>>,
                PutS3ObjectContents(sess, res, goexit, awsRegion, bucket, key, body))

(* ------------------------------------------------------------------ *)
(* Buckets: create, policy, versioning, delete                          *)
(* ------------------------------------------------------------------ *)
CreateS3BucketE(sess, res, region, name) ==
    LET fn == "CreateS3BucketE"
        args == <<region, name>>
        c == NewS3ClientE(sess, region)
        req == Req("CreateBucket",
                   [Bucket |-> name, ObjectOwnership |-> "ObjectWriter",
                    LocationConstraint |-> IF region # "us-east-1" THEN region ELSE NilPtr],
                   res)
    IN  IF c.err # Nil
        THEN Result(fn, args, NoValue, c.err, <<>>, c.calls)
        ELSE Result(fn, args, NoValue, res.err, <<req>>, c.calls)

CreateS3Bucket(sess, res, goexit, region, name) ==
    Wrap(CreateS3BucketE(sess, res, region, name), goexit)

InvokeCreateS3BucketE ==
    /\ pc = "idle"
    /\ \E sess \in Sessions, res \in PlainResponses, region \in Regions,
          name \in BucketNames :
        Finish("CreateS3BucketE", <<region, name>>,
               CreateS3BucketE(sess, res, region, name))

InvokeCreateS3Bucket ==
    /\ pc = "idle"
    /\ \E sess \in Sessions, res \in PlainResponses, region \in Regions,
          name \in BucketNames, goexit \in BOOLEAN :
        FinishW("CreateS3Bucket", <<region, name>>,
                CreateS3Bucket(sess, res, goexit, region, name))

Policies == {"", "{policy}"}

PutS3BucketPolicyE(sess, res, region, bucketName, policyJSONString) ==
    LET fn == "PutS3BucketPolicyE"
        args == <<region, bucketName, policyJSONString>>
        c == NewS3ClientE(sess, region)
        req == Req("PutBucketPolicy",
                   [Bucket |-> bucketName, Policy |-> policyJSONString], res)
    IN  IF c.err # Nil
        THEN Result(fn, args, NoValue, c.err, <<>>, c.calls)
        ELSE Result(fn, args, NoValue, res.err, <<req>>, c.calls)

PutS3BucketPolicy(sess, res, goexit, region, bucketName, policyJSONString) ==
    Wrap(PutS3BucketPolicyE(sess, res, region, bucketName, policyJSONString), goexit)

InvokePutS3BucketPolicyE ==
    /\ pc = "idle"
    /\ \E sess \in Sessions, res \in PlainResponses, region \in Regions,
          bucketName \in BucketNames, policyJSONString \in Policies :
        Finish("PutS3BucketPolicyE", <<region, bucketName, policyJSONString>>,
               PutS3BucketPolicyE(sess, res, region, bucketName, policyJSONString))

InvokePutS3BucketPolicy ==
    /\ pc = "idle"
    /\ \E sess \in Sessions, res \in PlainResponses, region \in Regions,
          bucketName \in BucketNames, policyJSONString \in Policies,
          goexit \in BOOLEAN :
        FinishW("PutS3BucketPolicy", <<region, bucketName, policyJSONString>>,
                PutS3BucketPolicy(sess, res, goexit, region, bucketName, policyJSONString))

PutS3BucketVersioningE(sess, res, region, bucketName) ==
    LET fn == "PutS3BucketVersioningE"
        args == <<region, bucketName>>
        c == NewS3ClientE(sess, region)
        req == Req("PutBucketVersioning",
                   [Bucket |-> bucketName, MFADelete |-> "Disabled", Status |-> "Enabled"],
                   res)
    IN  IF c.err # Nil
        THEN Result(fn, args, NoValue, c.err, <<>>, c.calls)
        ELSE Result(fn, args, NoValue, res.err, <<req>>, c.calls)

PutS3BucketVersioning(sess, res, goexit, region, bucketName) ==
    Wrap(PutS3BucketVersioningE(sess, res, region, bucketName), goexit)

InvokePutS3BucketVersioningE ==
    /\ pc = "idle"
    /\ \E sess \in Sessions, res \in PlainResponses, region \in Regions,
          bucketName \in BucketNames :
        Finish("PutS3BucketVersioningE", <<region, bucketName>>,
               PutS3BucketVersioningE(sess, res, region, bucketName))

InvokePutS3BucketVersioning ==
    /\ pc = "idle"
    /\ \E sess \in Sessions, res \in PlainResponses, region \in Regions,
          bucketName \in BucketNames, goexit \in BOOLEAN :
        FinishW("PutS3BucketVersioning", <<region, bucketName>>,
                PutS3BucketVersioning(sess, res, goexit, region, bucketName))

DeleteS3BucketE(sess, res, region, name) ==
    LET fn == "DeleteS3BucketE"
        args == <<region, name>>
        c == NewS3ClientE(sess, region)
        req == Req("DeleteBucket", [Bucket |-> name], res)
    IN  IF c.err # Nil
        THEN Result(fn, args, NoValue, c.err, <<>>, c.calls)
        ELSE Result(fn, args, NoValue, res.err, <<req>>, c.calls)

DeleteS3Bucket(sess, res, goexit, region, name) ==
    Wrap(DeleteS3BucketE(sess, res, region, name), goexit)

InvokeDeleteS3BucketE ==
    /\ pc = "idle"
    /\ \E sess \in Sessions, res \in PlainResponses, region \in Regions,
          name \in BucketNames :
        Finish("DeleteS3BucketE", <<region, name>>,
               DeleteS3BucketE(sess, res, region, name))

InvokeDeleteS3Bucket ==
    /\ pc = "idle"
    /\ \E sess \in Sessions, res \in PlainResponses, region \in Regions,
          name \in BucketNames, goexit \in BOOLEAN :
        FinishW("DeleteS3Bucket", <<region, name>>,
                DeleteS3Bucket(sess, res, goexit, region, name))

(* ------------------------------------------------------------------ *)
(* Access logging                                                       *)
(* ------------------------------------------------------------------ *)
\* S3AccessLoggingNotEnabledErr{bucket, awsRegion}
S3AccessLoggingNotEnabledErr(OriginBucket, Region) ==
    [type |-> "S3AccessLoggingNotEnabledErr", OriginBucket |-> OriginBucket,
     Region |-> Region]

\* GetBucketLogging: no LoggingEnabled section, or one whose TargetBucket and
\* TargetPrefix are strings or nil.
LoggingResponses ==
    {Success([LoggingEnabled |-> NilOutput])}
    \cup { Success([LoggingEnabled |-> [TargetBucket |-> b, TargetPrefix |-> x]]) :
             b \in {NilPtr, "", "logs"}, x \in {NilPtr, "", "prefix/"} }
    \cup Failures

GetS3BucketLoggingTargetE(sess, res, awsRegion, bucket) ==
    LET fn == "GetS3BucketLoggingTargetE"
        args == <<awsRegion, bucket>>
        c == NewS3ClientE(sess, awsRegion)
        req == Req("GetBucketLogging", [Bucket |-> bucket], res)
    IN  IF c.err # Nil
        THEN Result(fn, args, "", c.err, <<>>, c.calls)
        ELSE IF res.err # Nil
        THEN Result(fn, args, "", res.err, <<req>>, c.calls)
        ELSE IF res.out.LoggingEnabled = NilOutput
        THEN Result(fn, args, "", S3AccessLoggingNotEnabledErr(bucket, awsRegion),
                    <<req>>, c.calls)
        ELSE Result(fn, args, ToString(res.out.LoggingEnabled.TargetBucket), Nil,
                    <<req>>, c.calls)

GetS3BucketLoggingTarget(sess, res, goexit, awsRegion, bucket) ==
    Wrap(GetS3BucketLoggingTargetE(sess, res, awsRegion, bucket), goexit)

InvokeGetS3BucketLoggingTargetE ==
    /\ pc = "idle"
    /\ \E sess \in Sessions, res \in LoggingResponses, awsRegion \in Regions,
          bucket \in BucketNames :
        Finish("GetS3BucketLoggingTargetE", <<awsRegion, bucket>>, GetS3BucketLoggingTargetE(sess, res, awsRegion, bucket))

InvokeGetS3BucketLoggingTarget ==
    /\ pc = "idle"
    /\ \E sess \in Sessions, res \in LoggingResponses, awsRegion \in Regions,
          bucket \in BucketNames, goexit \in BOOLEAN :
        FinishW("GetS3BucketLoggingTarget", <<awsRegion, bucket>>, GetS3BucketLoggingTarget(sess, res, goexit, awsRegion, bucket))

\* A variant of GetS3BucketLoggingTargetPrefixE that returns the TargetBucket.
GetS3BucketLoggingTargetPrefixE_Bucket(sess, res, awsRegion, bucket) ==
    LET g == GetS3BucketLoggingTargetE(sess, res, awsRegion, bucket)
    IN  Result("GetS3BucketLoggingTargetPrefixE", <<awsRegion, bucket>>, g.val, g.err,
               g.reqs, Tail(g.calls))

GetS3BucketLoggingTargetPrefixE(sess, res, awsRegion, bucket) ==
    LET fn == "GetS3BucketLoggingTargetPrefixE"
        args == <<awsRegion, bucket>>
        c == NewS3ClientE(sess, awsRegion)
        req == Req("GetBucketLogging", [Bucket |-> bucket], res)
    IN  IF c.err # Nil
        THEN Result(fn, args, "", c.err, <<>>, c.calls)
        ELSE IF res.err # Nil
        THEN Result(fn, args, "", res.err, <<req>>, c.calls)
        ELSE IF res.out.LoggingEnabled = NilOutput
        THEN Result(fn, args, "", S3AccessLoggingNotEnabledErr(bucket, awsRegion),
                    <<req>>, c.calls)
        ELSE Result(fn, args, ToString(res.out.LoggingEnabled.TargetPrefix), Nil,
                    <<req>>, c.calls)

GetS3BucketLoggingTargetPrefix(sess, res, goexit, awsRegion, bucket) ==
    Wrap(GetS3BucketLoggingTargetPrefixE(sess, res, awsRegion, bucket), goexit)

InvokeGetS3BucketLoggingTargetPrefixE ==
    /\ pc = "idle"
    /\ \E sess \in Sessions, res \in LoggingResponses, awsRegion \in Regions,
          bucket \in BucketNames :
        Finish("GetS3BucketLoggingTargetPrefixE", <<awsRegion, bucket>>, GetS3BucketLoggingTargetPrefixE(sess, res, awsRegion, bucket))

InvokeGetS3BucketLoggingTargetPrefix ==
    /\ pc = "idle"
    /\ \E sess \in Sessions, res \in LoggingResponses, awsRegion \in Regions,
          bucket \in BucketNames, goexit \in BOOLEAN :
        FinishW("GetS3BucketLoggingTargetPrefix", <<awsRegion, bucket>>, GetS3BucketLoggingTargetPrefix(sess, res, goexit, awsRegion, bucket))

(* ------------------------------------------------------------------ *)
(* Versioning, policy, ownership controls                               *)
(* ------------------------------------------------------------------ *)
\* GetBucketVersioning: the status is empty for a bucket never versioned.
VersioningResponses ==
    { Success([Status |-> st]) : st \in {"", "Enabled", "Suspended"} } \cup Failures

GetS3BucketVersioningE(sess, res, awsRegion, bucket) ==
    LET fn == "GetS3BucketVersioningE"
        args == <<awsRegion, bucket>>
        c == NewS3ClientE(sess, awsRegion)
        req == Req("GetBucketVersioning", [Bucket |-> bucket], res)
    IN  IF c.err # Nil
        THEN Result(fn, args, "", c.err, <<>>, c.calls)
        ELSE IF res.err # Nil
        THEN Result(fn, args, "", res.err, <<req>>, c.calls)
        ELSE Result(fn, args, res.out.Status, Nil, <<req>>, c.calls)

GetS3BucketVersioning(sess, res, goexit, awsRegion, bucket) ==
    Wrap(GetS3BucketVersioningE(sess, res, awsRegion, bucket), goexit)

InvokeGetS3BucketVersioningE ==
    /\ pc = "idle"
    /\ \E sess \in Sessions, res \in VersioningResponses, awsRegion \in Regions,
          bucket \in BucketNames :
        Finish("GetS3BucketVersioningE", <<awsRegion, bucket>>, GetS3BucketVersioningE(sess, res, awsRegion, bucket))

InvokeGetS3BucketVersioning ==
    /\ pc = "idle"
    /\ \E sess \in Sessions, res \in VersioningResponses, awsRegion \in Regions,
          bucket \in BucketNames, goexit \in BOOLEAN :
        FinishW("GetS3BucketVersioning", <<awsRegion, bucket>>, GetS3BucketVersioning(sess, res, goexit, awsRegion, bucket))

PolicyResponses ==
    { Success([Policy |-> x]) : x \in {NilPtr} \cup Policies } \cup Failures

GetS3BucketPolicyE(sess, res, awsRegion, bucket) ==
    LET fn == "GetS3BucketPolicyE"
        args == <<awsRegion, bucket>>
        c == NewS3ClientE(sess, awsRegion)
        req == Req("GetBucketPolicy", [Bucket |-> bucket], res)
    IN  IF c.err # Nil
        THEN Result(fn, args, "", c.err, <<>>, c.calls)
        ELSE IF res.err # Nil
        THEN Result(fn, args, "", res.err, <<req>>, c.calls)
        ELSE Result(fn, args, ToString(res.out.Policy), Nil, <<req>>, c.calls)

GetS3BucketPolicy(sess, res, goexit, awsRegion, bucket) ==
    Wrap(GetS3BucketPolicyE(sess, res, awsRegion, bucket), goexit)

InvokeGetS3BucketPolicyE ==
    /\ pc = "idle"
    /\ \E sess \in Sessions, res \in PolicyResponses, awsRegion \in Regions,
          bucket \in BucketNames :
        Finish("GetS3BucketPolicyE", <<awsRegion, bucket>>, GetS3BucketPolicyE(sess, res, awsRegion, bucket))

InvokeGetS3BucketPolicy ==
    /\ pc = "idle"
    /\ \E sess \in Sessions, res \in PolicyResponses, awsRegion \in Regions,
          bucket \in BucketNames, goexit \in BOOLEAN :
        FinishW("GetS3BucketPolicy", <<awsRegion, bucket>>, GetS3BucketPolicy(sess, res, goexit, awsRegion, bucket))

OwnershipResponses ==
    { Success([OwnershipControls |-> [Rules |-> rules]]) :
        rules \in { <<>>, <<[ObjectOwnership |-> "BucketOwnerEnforced"]>>,
                    <<[ObjectOwnership |-> "ObjectWriter"],
                      [ObjectOwnership |-> "BucketOwnerPreferred"]>> } }
    \cup Failures

GetS3BucketOwnershipControlsE(sess, res, awsRegion, bucket) ==
    LET fn == "GetS3BucketOwnershipControlsE"
        args == <<awsRegion, bucket>>
        c == NewS3ClientE(sess, awsRegion)
        req == Req("GetBucketOwnershipControls", [Bucket |-> bucket], res)
    IN  IF c.err # Nil
        THEN Result(fn, args, NilPtr, c.err, <<>>, c.calls)
        ELSE IF res.err # Nil
        THEN Result(fn, args, NilPtr, res.err, <<req>>, c.calls)
        ELSE LET from == res.out.OwnershipControls.Rules
             IN  Result(fn, args, [i \in 1..Len(from) |-> from[i].ObjectOwnership],
                        Nil, <<req>>, c.calls)

GetS3BucketOwnershipControls(sess, res, goexit, awsRegion, bucket) ==
    Wrap(GetS3BucketOwnershipControlsE(sess, res, awsRegion, bucket), goexit)

InvokeGetS3BucketOwnershipControlsE ==
    /\ pc = "idle"
    /\ \E sess \in Sessions, res \in OwnershipResponses, awsRegion \in Regions,
          bucket \in BucketNames :
        Finish("GetS3BucketOwnershipControlsE", <<awsRegion, bucket>>, GetS3BucketOwnershipControlsE(sess, res, awsRegion, bucket))

InvokeGetS3BucketOwnershipControls ==
    /\ pc = "idle"
    /\ \E sess \in Sessions, res \in OwnershipResponses, awsRegion \in Regions,
          bucket \in BucketNames, goexit \in BOOLEAN :
        FinishW("GetS3BucketOwnershipControls", <<awsRegion, bucket>>, GetS3BucketOwnershipControls(sess, res, goexit, awsRegion, bucket))

(* ------------------------------------------------------------------ *)
(* Assertions                                                           *)
(* ------------------------------------------------------------------ *)
AssertS3BucketExistsE(sess, res, region, name) ==
    LET fn == "AssertS3BucketExistsE"
        args == <<region, name>>
        c == NewS3ClientE(sess, region)
        req == Req("HeadBucket", [Bucket |-> name], res)
    IN  IF c.err # Nil
        THEN Result(fn, args, NoValue, c.err, <<>>, c.calls)
        ELSE Result(fn, args, NoValue, res.err, <<req>>, c.calls)

AssertS3BucketExists(sess, res, goexit, region, name) ==
    Wrap(AssertS3BucketExistsE(sess, res, region, name), goexit)

InvokeAssertS3BucketExistsE ==
    /\ pc = "idle"
    /\ \E sess \in Sessions, res \in PlainResponses, region \in Regions,
          name \in BucketNames :
        Finish("AssertS3BucketExistsE", <<region, name>>, AssertS3BucketExistsE(sess, res, region, name))

InvokeAssertS3BucketExists ==
    /\ pc = "idle"
    /\ \E sess \in Sessions, res \in PlainResponses, region \in Regions,
          name \in BucketNames, goexit \in BOOLEAN :
        FinishW("AssertS3BucketExists", <<region, name>>, AssertS3BucketExists(sess, res, goexit, region, name))

\* The error of NewBucketVersioningNotEnabledError, whose code is in another
\* file of the package: an error value that carries its three arguments.
NewBucketVersioningNotEnabledError(s3BucketName, awsRegion, versioningStatus) ==
    [type |-> "BucketVersioningNotEnabled", s3BucketName |-> s3BucketName,
     awsRegion |-> awsRegion, versioningStatus |-> versioningStatus]

\* A variant of AssertS3BucketVersioningExistsE that fetches the status twice.
AssertS3BucketVersioningExistsE_Twice(sess, res, region, bucketName) ==
    LET fn == "AssertS3BucketVersioningExistsE"
        args == <<region, bucketName>>
        g == GetS3BucketVersioningE(sess, res, region, bucketName)
    IN  IF g.err # Nil
        THEN Result(fn, args, NoValue, g.err, g.reqs, g.calls)
        ELSE IF g.val = "Enabled"
        THEN Result(fn, args, NoValue, Nil, g.reqs \o g.reqs, g.calls \o g.calls)
        ELSE Result(fn, args, NoValue,
                    NewBucketVersioningNotEnabledError(bucketName, region, g.val),
                    g.reqs \o g.reqs, g.calls \o g.calls)

\* A variant of AssertS3BucketVersioningExistsE that accepts every status but
\* the empty one.
AssertS3BucketVersioningExistsE_AnyStatus(sess, res, region, bucketName) ==
    LET fn == "AssertS3BucketVersioningExistsE"
        args == <<region, bucketName>>
        g == GetS3BucketVersioningE(sess, res, region, bucketName)
    IN  IF g.err # Nil
        THEN Result(fn, args, NoValue, g.err, g.reqs, g.calls)
        ELSE IF g.val # ""
        THEN Result(fn, args, NoValue, Nil, g.reqs, g.calls)
        ELSE Result(fn, args, NoValue,
                    NewBucketVersioningNotEnabledError(bucketName, region, g.val),
                    g.reqs, g.calls)

AssertS3BucketVersioningExistsE(sess, res, region, bucketName) ==
    LET fn == "AssertS3BucketVersioningExistsE"
        args == <<region, bucketName>>
        g == GetS3BucketVersioningE(sess, res, region, bucketName)
        status == g.val
    IN  IF g.err # Nil
        THEN Result(fn, args, NoValue, g.err, g.reqs, g.calls)
        ELSE IF status = "Enabled"
        THEN Result(fn, args, NoValue, Nil, g.reqs, g.calls)
        ELSE Result(fn, args, NoValue,
                    NewBucketVersioningNotEnabledError(bucketName, region, status),
                    g.reqs, g.calls)

AssertS3BucketVersioningExists(sess, res, goexit, region, bucketName) ==
    Wrap(AssertS3BucketVersioningExistsE(sess, res, region, bucketName), goexit)

InvokeAssertS3BucketVersioningExistsE ==
    /\ pc = "idle"
    /\ \E sess \in Sessions, res \in VersioningResponses, region \in Regions,
          bucketName \in BucketNames :
        Finish("AssertS3BucketVersioningExistsE", <<region, bucketName>>, AssertS3BucketVersioningExistsE(sess, res, region, bucketName))

InvokeAssertS3BucketVersioningExists ==
    /\ pc = "idle"
    /\ \E sess \in Sessions, res \in VersioningResponses, region \in Regions,
          bucketName \in BucketNames, goexit \in BOOLEAN :
        FinishW("AssertS3BucketVersioningExists", <<region, bucketName>>, AssertS3BucketVersioningExists(sess, res, goexit, region, bucketName))

\* The error of NewNoBucketPolicyError, whose code is in another file of the
\* package: an error value that carries its three arguments.
NewNoBucketPolicyError(s3BucketName, awsRegion, bucketPolicy) ==
    [type |-> "NoBucketPolicyError", s3BucketName |-> s3BucketName,
     awsRegion |-> awsRegion, bucketPolicy |-> bucketPolicy]

AssertS3BucketPolicyExistsE(sess, res, region, bucketName) ==
    LET fn == "AssertS3BucketPolicyExistsE"
        args == <<region, bucketName>>
        g == GetS3BucketPolicyE(sess, res, region, bucketName)
        policy == g.val
    IN  IF g.err # Nil
        THEN Result(fn, args, NoValue, g.err, g.reqs, g.calls)
        ELSE IF policy = ""
        THEN Result(fn, args, NoValue,
                    NewNoBucketPolicyError(bucketName, region, policy),
                    g.reqs, g.calls)
        ELSE Result(fn, args, NoValue, Nil, g.reqs, g.calls)

AssertS3BucketPolicyExists(sess, res, goexit, region, bucketName) ==
    Wrap(AssertS3BucketPolicyExistsE(sess, res, region, bucketName), goexit)

InvokeAssertS3BucketPolicyExistsE ==
    /\ pc = "idle"
    /\ \E sess \in Sessions, res \in PolicyResponses, region \in Regions,
          bucketName \in BucketNames :
        Finish("AssertS3BucketPolicyExistsE", <<region, bucketName>>, AssertS3BucketPolicyExistsE(sess, res, region, bucketName))

InvokeAssertS3BucketPolicyExists ==
    /\ pc = "idle"
    /\ \E sess \in Sessions, res \in PolicyResponses, region \in Regions,
          bucketName \in BucketNames, goexit \in BOOLEAN :
        FinishW("AssertS3BucketPolicyExists", <<region, bucketName>>, AssertS3BucketPolicyExists(sess, res, goexit, region, bucketName))

(* ------------------------------------------------------------------ *)
(* Clients                                                              *)
(* ------------------------------------------------------------------ *)
InvokeNewS3ClientE ==
    /\ pc = "idle"
    /\ \E sess \in Sessions, region \in Regions :
        Finish("NewS3ClientE", <<region>>, NewS3ClientE(sess, region))

InvokeNewS3Client ==
    /\ pc = "idle"
    /\ \E sess \in Sessions, region \in Regions, goexit \in BOOLEAN :
        FinishW("NewS3Client", <<region>>, NewS3Client(sess, goexit, region))

InvokeNewS3UploaderE ==
    /\ pc = "idle"
    /\ \E sess \in Sessions, region \in Regions :
        Finish("NewS3UploaderE", <<region>>, NewS3UploaderE(sess, region))

InvokeNewS3Uploader ==
    /\ pc = "idle"
    /\ \E sess \in Sessions, region \in Regions, goexit \in BOOLEAN :
        FinishW("NewS3Uploader", <<region>>, NewS3Uploader(sess, goexit, region))

(* ------------------------------------------------------------------ *)
(* Specifications                                                       *)
(* ------------------------------------------------------------------ *)
\* The helpers that run to their return in one step.
NextHelpers ==
    \/ InvokeFindS3BucketWithTagE
    \/ InvokeFindS3BucketWithTag
    \/ InvokeGetS3BucketTagsE
    \/ InvokeGetS3BucketTags
    \/ InvokeGetS3ObjectContentsE
    \/ InvokeGetS3ObjectContents
    \/ InvokePutS3ObjectContentsE
    \/ InvokePutS3ObjectContents
    \/ InvokeCreateS3BucketE
    \/ InvokeCreateS3Bucket
    \/ InvokePutS3BucketPolicyE
    \/ InvokePutS3BucketPolicy
    \/ InvokePutS3BucketVersioningE
    \/ InvokePutS3BucketVersioning
    \/ InvokeDeleteS3BucketE
    \/ InvokeDeleteS3Bucket
    \/ InvokeGetS3BucketLoggingTargetE
    \/ InvokeGetS3BucketLoggingTarget
    \/ InvokeGetS3BucketLoggingTargetPrefixE
    \/ InvokeGetS3BucketLoggingTargetPrefix
    \/ InvokeGetS3BucketVersioningE
    \/ InvokeGetS3BucketVersioning
    \/ InvokeGetS3BucketPolicyE
    \/ InvokeGetS3BucketPolicy
    \/ InvokeGetS3BucketOwnershipControlsE
    \/ InvokeGetS3BucketOwnershipControls
    \/ InvokeAssertS3BucketExistsE
    \/ InvokeAssertS3BucketExists
    \/ InvokeAssertS3BucketVersioningExistsE
    \/ InvokeAssertS3BucketVersioningExists
    \/ InvokeAssertS3BucketPolicyExistsE
    \/ InvokeAssertS3BucketPolicyExists
    \/ InvokeNewS3ClientE
    \/ InvokeNewS3Client
    \/ InvokeNewS3UploaderE
    \/ InvokeNewS3Uploader

\* The test calls any helper of the file.
Next == NextEmpty \/ NextHelpers

Spec == Init /\ [][Next]_vars

(* ------------------------------------------------------------------ *)
(* Properties                                                           *)
(* ------------------------------------------------------------------ *)
Done == pc = "done"

\* The helpers without the E suffix, each with its twin.
Twins ==
    { <<"FindS3BucketWithTag", "FindS3BucketWithTagE">>,
      <<"GetS3BucketTags", "GetS3BucketTagsE">>,
      <<"GetS3ObjectContents", "GetS3ObjectContentsE">>,
      <<"PutS3ObjectContents", "PutS3ObjectContentsE">>,
      <<"CreateS3Bucket", "CreateS3BucketE">>,
      <<"PutS3BucketPolicy", "PutS3BucketPolicyE">>,
      <<"PutS3BucketVersioning", "PutS3BucketVersioningE">>,
      <<"DeleteS3Bucket", "DeleteS3BucketE">>,
      <<"EmptyS3Bucket", "EmptyS3BucketE">>,
      <<"GetS3BucketLoggingTarget", "GetS3BucketLoggingTargetE">>,
      <<"GetS3BucketLoggingTargetPrefix", "GetS3BucketLoggingTargetPrefixE">>,
      <<"GetS3BucketVersioning", "GetS3BucketVersioningE">>,
      <<"GetS3BucketPolicy", "GetS3BucketPolicyE">>,
      <<"GetS3BucketOwnershipControls", "GetS3BucketOwnershipControlsE">>,
      <<"AssertS3BucketExists", "AssertS3BucketExistsE">>,
      <<"AssertS3BucketVersioningExists", "AssertS3BucketVersioningExistsE">>,
      <<"AssertS3BucketPolicyExists", "AssertS3BucketPolicyExistsE">>,
      <<"NewS3Client", "NewS3ClientE">>,
      <<"NewS3Uploader", "NewS3UploaderE">> }

Wrappers == { p[1] : p \in Twins }
EHelpers == { p[2] : p \in Twins }
TwinOf(w) == (CHOOSE p \in Twins : p[1] = w)[2]

\* The string a *string of a response stands for.
Deref(p) == IF p = NilPtr THEN "" ELSE p

\* Whether a tag set of a response holds the tag key=value.
Carries(tagSet, key, value) ==
    [Key |-> key, Value |-> value] \in { tagSet[i] : i \in 1..Len(tagSet) }

\* The (key, version id) pairs of the versions and delete markers of a page.
PagePairs(page) ==
    { <<e.Key, e.VersionId>> :
        e \in { page.Versions[i] : i \in 1..Len(page.Versions) }
              \cup { page.DeleteMarkers[i] : i \in 1..Len(page.DeleteMarkers) } }

\* C1: whenever EmptyS3BucketE returns a nil error, the bucket it was called
\* on holds no object version and no delete marker.
C1_NilMeansEmpty ==
    (Done /\ calls # <<>> /\ calls[1].fn = "EmptyS3BucketE" /\ calls[1].err = Nil)
        => objects = {}

C3_AtMostOneRequest ==
    (Done /\ top.fn \in EHelpers \ {"EmptyS3BucketE"}) => Len(reqs) <= 1

\* C3, amended: every E helper but EmptyS3BucketE and FindS3BucketWithTagE
\* issues at most one SDK request in one call; FindS3BucketWithTagE issues one
\* ListBuckets and then at most one GetBucketTagging for each listed bucket, in
\* the order of the list.
C3_OneRequestButFind ==
    /\ (Done /\ top.fn \in EHelpers \ {"EmptyS3BucketE", "FindS3BucketWithTagE"})
          => Len(reqs) <= 1
    /\ (Done /\ top.fn = "FindS3BucketWithTagE" /\ reqs # <<>>) =>
          /\ reqs[1].op = "ListBuckets"
          /\ reqs[1].err # Nil => Len(reqs) = 1
          /\ reqs[1].err = Nil =>
                /\ Len(reqs) - 1 <= Len(reqs[1].out.Buckets)
                /\ \A i \in 2..Len(reqs) :
                      /\ reqs[i].op = "GetBucketTagging"
                      /\ reqs[i].in.Bucket = reqs[1].out.Buckets[i - 1]

\* C3 happens: FindS3BucketWithTagE looked up the tags of two buckets.
C3_Witness ==
    /\ Done
    /\ top.fn = "FindS3BucketWithTagE"
    /\ Len(reqs) >= 3

\* C4: when ListBuckets and every tag lookup succeed, FindS3BucketWithTagE
\* returns, with a nil error, the first listed bucket whose tags hold key=value,
\* and "" exactly when it has looked at every listed bucket and none holds the
\* tag; in any case a name it returns is a listed bucket whose tags hold the tag.
C4_FindsFirstTagged ==
    (Done /\ top.fn = "FindS3BucketWithTagE") =>
        LET key == top.args[2]
            value == top.args[3]
            lookups == 2..Len(reqs)
            success == /\ reqs # <<>>
                       /\ \A i \in 1..Len(reqs) : reqs[i].err = Nil
            tagged == { i \in lookups : reqs[i].err = Nil
                                        /\ Carries(reqs[i].out.TagSet, key, value) }
        IN  /\ success =>
                /\ ret.err = Nil
                /\ \A i \in lookups : reqs[i].in.Bucket = reqs[1].out.Buckets[i - 1]
                /\ tagged # {} =>
                      \E i \in tagged :
                          /\ \A j \in tagged : i <= j
                          /\ ret.val = reqs[1].out.Buckets[i - 1]
                /\ ret.val = "" <=>
                      (tagged = {} /\ Len(reqs) = Len(reqs[1].out.Buckets) + 1)
            /\ ret.val \notin {"", NoValue} =>
                /\ ret.err = Nil
                /\ ret.val \in Names(reqs[1].out.Buckets)
                /\ \E i \in tagged : reqs[i].in.Bucket = ret.val

\* C4 happens: the first listed bucket has the key with another value, and
\* the second one, which holds the tag, is returned.
C4_Witness ==
    /\ Done
    /\ top.fn = "FindS3BucketWithTagE"
    /\ Len(reqs) = 3
    /\ reqs[2].err = Nil
    /\ reqs[2].out.TagSet # <<>>
    /\ reqs[2].out.TagSet[1].Key = top.args[2]
    /\ ret.err = Nil
    /\ ret.val = reqs[1].out.Buckets[2]

\* C5: GetS3BucketLoggingTargetE and GetS3BucketLoggingTargetPrefixE return ""
\* with an S3AccessLoggingNotEnabledErr of the bucket and region exactly when
\* GetBucketLogging succeeds without a LoggingEnabled section; with the section
\* they return its TargetBucket (TargetPrefix) and a nil error; when the request
\* fails they return "" and its error.
C5_LoggingTarget ==
    (Done /\ top.fn \in {"GetS3BucketLoggingTargetE", "GetS3BucketLoggingTargetPrefixE"}) =>
        LET asked == reqs # <<>>
            ok == asked /\ reqs[1].err = Nil
            off == ok /\ reqs[1].out.LoggingEnabled = NilOutput
            on == ok /\ reqs[1].out.LoggingEnabled # NilOutput
            notEnabled == ret.err.type = "S3AccessLoggingNotEnabledErr"
        IN  /\ (ret.val = "" /\ notEnabled) <=> off
            /\ notEnabled =>
                  /\ ret.err.OriginBucket = top.args[2]
                  /\ ret.err.Region = top.args[1]
            /\ on => /\ ret.err = Nil
                     /\ ret.val =
                          IF top.fn = "GetS3BucketLoggingTargetE"
                          THEN Deref(reqs[1].out.LoggingEnabled.TargetBucket)
                          ELSE Deref(reqs[1].out.LoggingEnabled.TargetPrefix)
            /\ (asked /\ ~ok) => ret.val = "" /\ ret.err = reqs[1].err
            /\ asked => /\ Len(reqs) = 1
                        /\ reqs[1].op = "GetBucketLogging"
                        /\ reqs[1].in.Bucket = top.args[2]

\* C5 happens: the prefix of a bucket with logging enabled was returned.
C5_Witness ==
    /\ Done
    /\ top.fn = "GetS3BucketLoggingTargetPrefixE"
    /\ ret.err = Nil
    /\ ret.val = "prefix/"

\* C6: AssertS3BucketVersioningExistsE returns nil exactly when
\* GetBucketVersioning succeeds with the status "Enabled"; with any other
\* status it returns a versioning-not-enabled error, and the error of a failed
\* request is returned as it is.
C6_VersioningEnabled ==
    (Done /\ top.fn = "AssertS3BucketVersioningExistsE") =>
        LET ok == reqs # <<>> /\ reqs[1].err = Nil
        IN  /\ ret.err = Nil <=> (ok /\ reqs[1].out.Status = "Enabled")
            /\ (ok /\ reqs[1].out.Status # "Enabled") =>
                  ret.err.type = "BucketVersioningNotEnabled"
            /\ (reqs # <<>> /\ ~ok) => ret.err = reqs[1].err
            /\ reqs # <<>> => /\ reqs[1].op = "GetBucketVersioning"
                              /\ reqs[1].in.Bucket = top.args[2]

\* C6 happens: a bucket whose versioning is suspended is refused.
C6_Witness ==
    /\ Done
    /\ top.fn = "AssertS3BucketVersioningExistsE"
    /\ reqs # <<>>
    /\ reqs[1].err = Nil
    /\ reqs[1].out.Status = "Suspended"
    /\ ret.err # Nil

\* C7: the requests of EmptyS3BucketE alternate: a ListObjectVersions, then at
\* most one DeleteObjects on the same bucket for exactly the versions and
\* delete markers of that page; a further ListObjectVersions follows only a
\* truncated page and carries its NextKeyMarker as KeyMarker, and the helper
\* does not return after the DeleteObjects of a truncated page has succeeded.
C7_ListDeleteAlternation ==
    (calls # <<>> /\ calls[1].fn = "EmptyS3BucketE") =>
      /\ (Done /\ reqs # <<>> /\ reqs[Len(reqs)].op = "DeleteObjects"
               /\ reqs[Len(reqs)].err = Nil)
            => ~reqs[Len(reqs) - 1].out.IsTruncated
      /\ \A i \in 1..Len(reqs) :
            /\ reqs[i].in.Bucket = calls[1].args[2]
            /\ i % 2 = 1 => reqs[i].op = "ListObjectVersions"
            /\ i % 2 = 0 =>
                  /\ reqs[i].op = "DeleteObjects"
                  /\ reqs[i - 1].err = Nil
                  /\ Len(reqs[i].in.Objects) = Cardinality(PagePairs(reqs[i - 1].out))
                  /\ { <<o.Key, o.VersionId>> :
                         o \in { reqs[i].in.Objects[j] : j \in 1..Len(reqs[i].in.Objects) } }
                       = PagePairs(reqs[i - 1].out)
            /\ (i % 2 = 1 /\ i > 1) =>
                  /\ reqs[i - 1].err = Nil
                  /\ reqs[i - 2].out.IsTruncated
                  /\ reqs[i].in.KeyMarker = reqs[i - 2].out.NextKeyMarker

\* C7 happens: the first page, a delete marker among its entries, was deleted,
\* and the second page was listed from its NextKeyMarker and deleted in turn.
C7_Witness ==
    /\ Done
    /\ calls[1].fn = "EmptyS3BucketE"
    /\ Len(reqs) = 4
    /\ reqs[4].err = Nil
    /\ reqs[1].out.DeleteMarkers # <<>>
    /\ reqs[3].in.KeyMarker # NoMarker
==========================================================================
